---------------------------- MODULE Spec2Model ----------------------------
(***************************************************************************)
(* Model of check_balance (src/check_syntax.py): a bracket-balance scan    *)
(* over the lines of a text that skips string literals, line comments and  *)
(* block comments.                                                          *)
(*                                                                         *)
(* A text is a sequence of one-character strings; "\n" is the only line    *)
(* boundary in the alphabet.  Indices i and j are 0-based as in the        *)
(* source; the k-th element of a TLA+ sequence is the source's [k-1].      *)
(***************************************************************************)
EXTENDS Integers, Sequences, FiniteSets

VARIABLES content, lines, stack, in_string, string_char, in_comment,
          in_multiline_comment, i, j, pc, output,
          calls    \* the number of calls of check_balance begun so far

vars == <<content, lines, stack, in_string, string_char, in_comment,
          in_multiline_comment, i, j, pc, output, calls>>

-----------------------------------------------------------------------------
(* Bounds of the input families                                            *)

MaxMixedLen == 3
MaxBracketLen == 4
MaxDeepLen == 7
MaxCommentTokens == 4
MaxQuoteLen == 5
MaxTailText == 4
MaxTail == 1
MaxRepeatText == 2
MaxCalls == 2

-----------------------------------------------------------------------------
(* Characters                                                              *)

Openers == {"{", "(", "["}
Closers == {"}", ")", "]"}
(* The backquote character cannot be written inside a TLA+ string; the    *)
(* token "bq" stands for it.                                               *)
Backquote == "bq"
Quotes == {"'", "\"", Backquote}
Newline == "\n"

Alphabet == Openers \cup Closers \cup Quotes \cup {"/", "*", "\\", "a", Newline}
BracketAlphabet == Openers \cup Closers \cup {Newline}
DeepAlphabet == {"{", "(", ")", Newline}
QuoteAlphabet == {"\"", "'", "\\", "}", Newline}
CommentTokens ==
    {<<"/", "*">>, <<"*", "/">>, <<"/", "/">>, <<"/">>, <<"*">>, <<"}">>, <<Newline>>}

TailAlphabet == {"(", ")", "]", "\"", "/", "*", "\\", Newline}

(* The texts over A of at most n characters *)
Texts(A, n) == UNION {[1..k -> A] : k \in 0..n}

(* The texts made of at most n of the tokens Tok *)
RECURSIVE TokenTexts(_, _)
TokenTexts(Tok, n) ==
    IF n = 0 THEN {<<>>}
    ELSE LET P == TokenTexts(Tok, n - 1) IN P \cup {p \o t : p \in P, t \in Tok}

(* The example texts P1..P9 of the specification *)
Examples ==
    { <<"{", "}">>,
      <<"{", "[", "(", ")", "]", "}">>,
      <<")">>,
      <<"(", "]">>,
      <<"{", "{", "{">>,
      <<"\"", "{", "(", "\"">>,
      <<"/", "/", " ", "{", Newline, "f", "o", "o">>,
      <<"/", "*", " ", "{", Newline, "}", " ", "*", "/">>,
      <<"\"", "\\", "\"", "}", "\"">> }

Inputs ==
    Texts(Alphabet, MaxMixedLen) \cup Texts(BracketAlphabet, MaxBracketLen)
      \cup Texts(DeepAlphabet, MaxDeepLen) \cup Texts(QuoteAlphabet, MaxQuoteLen)
      \cup TokenTexts(CommentTokens, MaxCommentTokens) \cup Examples

-----------------------------------------------------------------------------
(* content.splitlines(): the pieces between line boundaries; a boundary at *)
(* the very end of the text opens no further (empty) line.                 *)

RECURSIVE SplitFrom(_, _, _)
SplitFrom(text, k, cur) ==
    IF k > Len(text) THEN (IF cur = <<>> THEN <<>> ELSE <<cur>>)
    ELSE IF text[k] = Newline THEN <<cur>> \o SplitFrom(text, k + 1, <<>>)
    ELSE SplitFrom(text, k + 1, Append(cur, text[k]))

SplitLines(text) == SplitFrom(text, 1, <<>>)

-----------------------------------------------------------------------------
(* Printed messages, one record per print call                             *)

UnexpectedMsg(char, line, col) ==
    [msg |-> "Unexpected", char |-> char, line |-> line, col |-> col]

MismatchedMsg(char, line, col, expected, frame) ==
    [msg |-> "Mismatched", char |-> char, line |-> line, col |-> col,
     expected |-> expected, last_char |-> frame[1], last_line |-> frame[2],
     last_col |-> frame[3]]

UnclosedMsg(frame) ==
    [msg |-> "Unclosed", char |-> frame[1], line |-> frame[2], col |-> frame[3]]

TotalUnclosedMsg(n) == [msg |-> "Total unclosed", total |-> n]

LastFewMsg(frames) == [msg |-> "Last few unclosed", frames |-> frames]

NoUnbalancedMsg == [msg |-> "No unbalanced brackets found."]

-----------------------------------------------------------------------------
(* The loop body, one operator per branch.  s is the record of the locals  *)
(* of check_balance, line the current line; each operator gives the locals *)
(* after the branch, with pc = "done" when the branch returns.             *)

Char(line, s) == line[s.j + 1]

(* Mutant of Expected: the closers of "(" and "[" exchanged *)
ExpectedCrossed(last_char) ==
    CASE last_char = "{" -> "}"
      [] last_char = "(" -> "]"
      [] last_char = "[" -> ")"

Expected(last_char) ==
    CASE last_char = "{" -> "}"
      [] last_char = "(" -> ")"
      [] last_char = "[" -> "]"

(* Mutant of CommentBranch: the comment is reset one character early *)
CommentBranchEarlyReset(line, s) ==
    [s EXCEPT !.in_comment = IF s.j >= Len(line) - 2 THEN FALSE ELSE @,
              !.j = @ + 1]

CommentBranch(line, s) ==
    [s EXCEPT !.in_comment = IF s.j = Len(line) - 1 THEN FALSE ELSE @,
              !.j = @ + 1]

(* Mutant of MultilineBranch: a "*" closes the comment whatever follows it *)
MultilineBranchStarCloses(line, s) ==
    IF Char(line, s) = "*"
    THEN [s EXCEPT !.in_multiline_comment = FALSE, !.j = @ + 1]
    ELSE [s EXCEPT !.j = @ + 1]

(* Mutant of MultilineBranch: no advance past a character that does not    *)
(* close the comment                                                       *)
MultilineBranchStuck(line, s) ==
    IF Char(line, s) = "*" /\ s.j + 1 < Len(line) /\ line[s.j + 2] = "/"
    THEN [s EXCEPT !.in_multiline_comment = FALSE, !.j = @ + 2]
    ELSE s

MultilineBranch(line, s) ==
    IF Char(line, s) = "*" /\ s.j + 1 < Len(line) /\ line[s.j + 2] = "/"
    THEN [s EXCEPT !.in_multiline_comment = FALSE, !.j = @ + 2]
    ELSE [s EXCEPT !.j = @ + 1]

(* Mutant of StringBranch: any quote character ends the string *)
StringBranchAnyQuote(line, s) ==
    IF Char(line, s) = "\\" THEN [s EXCEPT !.j = @ + 2]
    ELSE IF Char(line, s) \in Quotes
         THEN [s EXCEPT !.in_string = FALSE, !.j = @ + 1]
         ELSE [s EXCEPT !.j = @ + 1]

(* Mutant of StringBranch: the character after a backslash is not skipped *)
StringBranchNoSkip(line, s) ==
    IF Char(line, s) = "\\" THEN [s EXCEPT !.j = @ + 1]
    ELSE IF Char(line, s) = s.string_char
         THEN [s EXCEPT !.in_string = FALSE, !.j = @ + 1]
         ELSE [s EXCEPT !.j = @ + 1]

StringBranch(line, s) ==
    IF Char(line, s) = "\\" THEN [s EXCEPT !.j = @ + 2]
    ELSE IF Char(line, s) = s.string_char
         THEN [s EXCEPT !.in_string = FALSE, !.j = @ + 1]
         ELSE [s EXCEPT !.j = @ + 1]

(* Mutant of QuoteBranch: the quote character is not recorded *)
QuoteBranchNoChar(line, s) == [s EXCEPT !.in_string = TRUE, !.j = @ + 1]

QuoteBranch(line, s) ==
    [s EXCEPT !.in_string = TRUE, !.string_char = Char(line, s), !.j = @ + 1]

StartsComment(line, s) ==
    /\ Char(line, s) = "/"
    /\ s.j + 1 < Len(line)
    /\ line[s.j + 2] \in {"/", "*"}

SlashBranch(line, s) ==
    IF line[s.j + 2] = "/"
    THEN [s EXCEPT !.in_comment = TRUE, !.j = @ + 1]
    ELSE [s EXCEPT !.in_multiline_comment = TRUE, !.j = @ + 1]

(* Mutant of OpenerBranch: the frame records the 0-based column *)
OpenerBranchZeroBased(line, s) ==
    [s EXCEPT !.stack = Append(@, <<Char(line, s), s.i + 1, s.j>>),
              !.j = @ + 1]

OpenerBranch(line, s) ==
    [s EXCEPT !.stack = Append(@, <<Char(line, s), s.i + 1, s.j + 1>>),
              !.j = @ + 1]

(* Mutant of UnexpectedBranch: the closer is passed over and the scan goes on *)
UnexpectedBranchSkip(line, s) == [s EXCEPT !.j = @ + 1]

(* Mutant of UnexpectedBranch: the column reported 0-based *)
UnexpectedBranchZeroBased(line, s) ==
    [s EXCEPT !.output = Append(@, UnexpectedMsg(Char(line, s), s.i + 1, s.j)),
              !.pc = "done"]

UnexpectedBranch(line, s) ==
    [s EXCEPT !.output = Append(@, UnexpectedMsg(Char(line, s), s.i + 1, s.j + 1)),
              !.pc = "done"]

(* Mutant of PopBranch: the oldest frame is removed, not the newest *)
PopBranchOldest(line, s) ==
    LET last == s.stack[Len(s.stack)]
        popped == Tail(s.stack)
        expected == Expected(last[1])
    IN  IF Char(line, s) # expected
        THEN [s EXCEPT !.stack = popped,
                       !.output = Append(@, MismatchedMsg(Char(line, s), s.i + 1,
                                                          s.j + 1, expected, last)),
                       !.pc = "done"]
        ELSE [s EXCEPT !.stack = popped, !.j = @ + 1]

(* Mutant of PopBranch: the mismatch names the bottom frame *)
PopBranchBottom(line, s) ==
    LET last == s.stack[Len(s.stack)]
        popped == SubSeq(s.stack, 1, Len(s.stack) - 1)
        expected == Expected(last[1])
    IN  IF Char(line, s) # expected
        THEN [s EXCEPT !.stack = popped,
                       !.output = Append(@, MismatchedMsg(Char(line, s), s.i + 1,
                                                          s.j + 1, expected,
                                                          s.stack[1])),
                       !.pc = "done"]
        ELSE [s EXCEPT !.stack = popped, !.j = @ + 1]

PopBranch(line, s) ==
    LET last == s.stack[Len(s.stack)]
        popped == SubSeq(s.stack, 1, Len(s.stack) - 1)
        expected == Expected(last[1])
    IN  IF Char(line, s) # expected
        THEN [s EXCEPT !.stack = popped,
                       !.output = Append(@, MismatchedMsg(Char(line, s), s.i + 1,
                                                          s.j + 1, expected, last)),
                       !.pc = "done"]
        ELSE [s EXCEPT !.stack = popped, !.j = @ + 1]

BracketBranch(line, s) ==
    IF Char(line, s) \in Openers THEN OpenerBranch(line, s)
    ELSE IF Char(line, s) \in Closers
         THEN (IF s.stack = <<>> THEN UnexpectedBranch(line, s)
               ELSE PopBranch(line, s))
         ELSE [s EXCEPT !.j = @ + 1]

(* Mutant of Iterate: the lookahead after "/" runs on into the next line *)
IterateLookaheadAcrossLines(line, s) ==
    IF s.in_comment THEN CommentBranch(line, s)
    ELSE IF s.in_multiline_comment THEN MultilineBranch(line, s)
    ELSE IF s.in_string THEN StringBranch(line, s)
    ELSE IF Char(line, s) \in Quotes THEN QuoteBranch(line, s)
    ELSE IF StartsComment(line, s) THEN SlashBranch(line, s)
    ELSE IF /\ Char(line, s) = "/"
            /\ s.j + 1 = Len(line)
            /\ s.i + 1 < Len(lines)
            /\ Len(lines[s.i + 2]) > 0
            /\ lines[s.i + 2][1] = "*"
         THEN [s EXCEPT !.in_multiline_comment = TRUE, !.j = @ + 1]
    ELSE BracketBranch(line, s)

Iterate(line, s) ==
    IF s.in_comment THEN CommentBranch(line, s)
    ELSE IF s.in_multiline_comment THEN MultilineBranch(line, s)
    ELSE IF s.in_string THEN StringBranch(line, s)
    ELSE IF Char(line, s) \in Quotes THEN QuoteBranch(line, s)
    ELSE IF StartsComment(line, s) THEN SlashBranch(line, s)
    ELSE BracketBranch(line, s)

(* The end of the while loop of one line: the reset after it and the next  *)
(* round of the for loop, which sets j = 0.                                *)
(* Mutant of LineEnd: an escape at the end of a line skips into the next *)
LineEndCarriesSkip(s) ==
    [s EXCEPT !.in_comment = FALSE,
              !.i = @ + 1,
              !.j = IF s.j > Len(lines[s.i + 1]) THEN 1 ELSE 0]

(* Mutant of LineEnd: a string ends with its line *)
LineEndClosesString(s) ==
    [s EXCEPT !.in_comment = FALSE, !.in_string = FALSE, !.i = @ + 1, !.j = 0]

LineEnd(s) == [s EXCEPT !.in_comment = FALSE, !.i = @ + 1, !.j = 0]

(* Mutant of LastFew: stack[:5] *)
LastFewOldest(stk) == SubSeq(stk, 1, IF Len(stk) > 5 THEN 5 ELSE Len(stk))

(* stack[-5:] *)
LastFew(stk) == SubSeq(stk, IF Len(stk) > 5 THEN Len(stk) - 4 ELSE 1, Len(stk))

(* Mutant of Report: nothing is reported when the text ends inside a      *)
(* string or a block comment                                              *)
ReportOnlyInNormal(s) ==
    IF s.in_string \/ s.in_multiline_comment
    THEN [s EXCEPT !.pc = "done"]
    ELSE IF s.stack # <<>>
    THEN [s EXCEPT !.output = @ \o <<UnclosedMsg(s.stack[1]),
                                     TotalUnclosedMsg(Len(s.stack)),
                                     LastFewMsg(LastFew(s.stack))>>,
                   !.pc = "done"]
    ELSE [s EXCEPT !.output = Append(@, NoUnbalancedMsg), !.pc = "done"]

Report(s) ==
    IF s.stack # <<>>
    THEN [s EXCEPT !.output = @ \o <<UnclosedMsg(s.stack[1]),
                                     TotalUnclosedMsg(Len(s.stack)),
                                     LastFewMsg(LastFew(s.stack))>>,
                   !.pc = "done"]
    ELSE [s EXCEPT !.output = Append(@, NoUnbalancedMsg), !.pc = "done"]

-----------------------------------------------------------------------------
(* The locals at the entry of the for loop                                 *)

Start == [stack |-> <<>>, in_string |-> FALSE, string_char |-> "",
          in_comment |-> FALSE, in_multiline_comment |-> FALSE,
          i |-> 0, j |-> 0, pc |-> "scan", output |-> <<>>]

Locals == [stack |-> stack, in_string |-> in_string, string_char |-> string_char,
           in_comment |-> in_comment,
           in_multiline_comment |-> in_multiline_comment,
           i |-> i, j |-> j, pc |-> pc, output |-> output]

Becomes(s) ==
    /\ stack' = s.stack
    /\ in_string' = s.in_string
    /\ string_char' = s.string_char
    /\ in_comment' = s.in_comment
    /\ in_multiline_comment' = s.in_multiline_comment
    /\ i' = s.i
    /\ j' = s.j
    /\ pc' = s.pc
    /\ output' = s.output
    /\ UNCHANGED <<content, lines, calls>>

InLine == pc = "scan" /\ i < Len(lines)
AtChar == InLine /\ j < Len(lines[i + 1])

InitOn(T) ==
    /\ content \in T
    /\ lines = SplitLines(content)
    /\ stack = Start.stack
    /\ in_string = Start.in_string
    /\ string_char = Start.string_char
    /\ in_comment = Start.in_comment
    /\ in_multiline_comment = Start.in_multiline_comment
    /\ i = Start.i
    /\ j = Start.j
    /\ pc = Start.pc
    /\ output = Start.output
    /\ calls = 1

Init == InitOn(Inputs)

(* One round of the while loop *)
LoopStep == AtChar /\ Becomes(Iterate(lines[i + 1], Locals))

(* The while loop of line i is over *)
EndLine == InLine /\ j >= Len(lines[i + 1]) /\ Becomes(LineEnd(Locals))

(* The for loop is over *)
Finish == pc = "scan" /\ i >= Len(lines) /\ Becomes(Report(Locals))

Next == LoopStep \/ EndLine \/ Finish

Spec == Init /\ [][Next]_vars

(* The scan of the short texts whose tails the ordering property varies *)
TailInit == InitOn(Texts(TailAlphabet, MaxTailText))
TailSpec == TailInit /\ [][Next]_vars

(* The same scan as a sequential program, which always takes its next step *)
FairSpec == TailInit /\ [][Next]_vars /\ WF_vars(Next)

(* Mutant of Entry: the mode flags of the call before are still there *)
EntryKeepsMode ==
    [Start EXCEPT !.in_string = in_string, !.string_char = string_char,
                  !.in_multiline_comment = in_multiline_comment]

(* The locals at the entry of a further call of check_balance: every call  *)
(* runs lines 7 to 14 again.                                               *)
Entry == Start

(* A further call, on any text, after the call before has returned *)
RepeatInputs == Texts(TailAlphabet, MaxRepeatText)

Invoke ==
    /\ pc = "done"
    /\ calls < MaxCalls
    /\ calls' = calls + 1
    /\ \E t \in RepeatInputs :
          /\ content' = t
          /\ lines' = SplitLines(t)
    /\ stack' = Entry.stack
    /\ in_string' = Entry.in_string
    /\ string_char' = Entry.string_char
    /\ in_comment' = Entry.in_comment
    /\ in_multiline_comment' = Entry.in_multiline_comment
    /\ i' = Entry.i
    /\ j' = Entry.j
    /\ pc' = Entry.pc
    /\ output' = Entry.output

RepeatNext == LoopStep \/ EndLine \/ Finish \/ Invoke

RepeatSpec == InitOn(RepeatInputs) /\ [][RepeatNext]_vars

-----------------------------------------------------------------------------
(* The scan as a function of the text                                      *)

StepOf(ls, s) ==
    IF s.i >= Len(ls) THEN Report(s)
    ELSE IF s.j >= Len(ls[s.i + 1]) THEN LineEnd(s)
    ELSE Iterate(ls[s.i + 1], s)

RECURSIVE RunFrom(_, _)
RunFrom(ls, s) == IF s.pc = "done" THEN s ELSE RunFrom(ls, StepOf(ls, s))

Run(text) == RunFrom(SplitLines(text), Start).output

-----------------------------------------------------------------------------
(* Vocabulary of the properties                                            *)

Normal == ~in_string /\ ~in_comment /\ ~in_multiline_comment
CurLine == lines[i + 1]
CurChar == CurLine[j + 1]
Done == pc = "done"
Top == stack[Len(stack)]

(* The closer that pairs with an opener, stated apart from the scan *)
Pairs == {<<"{", "}">>, <<"(", ")">>, <<"[", "]">>}
CloserOf(o) == (CHOOSE pr \in Pairs : pr[1] = o)[2]

IsOk(out) == out = <<[msg |-> "No unbalanced brackets found."]>>
IsUnexpected(out) == Len(out) = 1 /\ out[1].msg = "Unexpected"
IsMismatched(out) == Len(out) = 1 /\ out[1].msg = "Mismatched"
IsUnclosed(out) ==
    /\ Len(out) = 3
    /\ out[1].msg = "Unclosed"
    /\ out[2].msg = "Total unclosed"
    /\ out[3].msg = "Last few unclosed"
IsHalt(out) == IsUnexpected(out) \/ IsMismatched(out)

(* A closer is being scanned in Normal mode *)
AtNormalCloser == AtChar /\ Normal /\ CurChar \in Closers
FailingCloser == AtNormalCloser /\ (stack = <<>> \/ CloserOf(Top[1]) # CurChar)

(* Index in the text of column col (1-based) of line ln (1-based) *)
RECURSIVE FlatPos(_, _, _)
FlatPos(ls, ln, col) ==
    IF ln = 1 THEN col ELSE Len(ls[1]) + 1 + FlatPos(Tail(ls), ln - 1, col)

-----------------------------------------------------------------------------
(* C1: for a text without quote, slash or backslash characters, the scan   *)
(* reports Ok exactly when the bracket characters of the text are          *)
(* well-nested (Dyck) over the three pair types, and otherwise exactly one *)
(* of UnexpectedCloser, MismatchedCloser, UnclosedOpener.                  *)

BracketsOf(text) == SelectSeq(text, LAMBDA c : c \in Openers \cup Closers)

AdjacentPairs(b) == {k \in 1..(Len(b) - 1) : <<b[k], b[k + 1]>> \in Pairs}

(* Cancel adjacent opener-closer pairs of one type until none is left *)
RECURSIVE Reduce(_)
Reduce(b) ==
    IF AdjacentPairs(b) = {} THEN b
    ELSE LET k == CHOOSE m \in AdjacentPairs(b) : TRUE
         IN  Reduce(SubSeq(b, 1, k - 1) \o SubSeq(b, k + 2, Len(b)))

WellNested(b) == Reduce(b) = <<>>

NoLexical(text) == \A k \in 1..Len(text) : text[k] \notin Quotes \cup {"/", "\\"}

C1_OkIffWellNested ==
    (Done /\ NoLexical(content)) =>
        /\ IsOk(output) <=> WellNested(BracketsOf(content))
        /\ ~IsOk(output) =>
              Cardinality({D \in {"UnexpectedCloser", "MismatchedCloser",
                                  "UnclosedOpener"} :
                            \/ D = "UnexpectedCloser" /\ IsUnexpected(output)
                            \/ D = "MismatchedCloser" /\ IsMismatched(output)
                            \/ D = "UnclosedOpener" /\ IsUnclosed(output)}) = 1

C1_Witness ==
    /\ Done /\ NoLexical(content) /\ IsOk(output)
    /\ Len(BracketsOf(content)) >= 6
    /\ \A o \in Openers : \E k \in 1..Len(content) : content[k] = o
    /\ content[Len(content)] = CloserOf(content[1])

-----------------------------------------------------------------------------
(* C2: a closer scanned in Normal mode on an empty stack ends the scan at  *)
(* that character with UnexpectedCloser carrying the character and its     *)
(* 1-based line and column; nothing is scanned after a result.             *)

C2_UnexpectedCloser ==
    [][/\ ~Done
       /\ (AtNormalCloser /\ stack = <<>>) =>
             /\ Done'
             /\ output' = <<[msg |-> "Unexpected", char |-> CurChar,
                             line |-> i + 1, col |-> j + 1]>>
             /\ lines[output'[1].line][output'[1].col] = CurChar
             /\ i' = i /\ j' = j /\ stack' = <<>>]_vars

C2_Witness ==
    /\ Done /\ IsUnexpected(output)
    /\ output[1].line = 2 /\ output[1].col = 3

-----------------------------------------------------------------------------
(* C3: a closer scanned in Normal mode on a non-empty stack whose top      *)
(* frame expects another closer ends the scan with MismatchedCloser        *)
(* carrying the closer and its position, the expected closer and the top   *)
(* frame; a closer the top frame expects pops that frame and the scan goes *)
(* on without a diagnostic.                                                *)

C3_MismatchedOrPop ==
    [][(AtNormalCloser /\ stack # <<>>) =>
          IF CloserOf(Top[1]) # CurChar
          THEN /\ Done'
               /\ output' = <<[msg |-> "Mismatched", char |-> CurChar,
                               line |-> i + 1, col |-> j + 1,
                               expected |-> CloserOf(Top[1]),
                               last_char |-> Top[1], last_line |-> Top[2],
                               last_col |-> Top[3]]>>
          ELSE /\ stack' = SubSeq(stack, 1, Len(stack) - 1)
               /\ output' = <<>>
               /\ pc' = "scan"
               /\ i' = i /\ j' = j + 1]_vars

C3_Witness ==
    /\ Done /\ IsMismatched(output)
    /\ stack # <<>>
    /\ output[1].last_line < output[1].line
    /\ output[1].last_col > 1

-----------------------------------------------------------------------------
(* C4: at the end of the input the result is Ok on an empty stack, and     *)
(* otherwise UnclosedOpener with the bottom frame as primary, the stack    *)
(* length as total and the last min(5, length) frames in stack order.      *)

Min(a, b) == IF a < b THEN a ELSE b

C4_EndOfInput ==
    (Done /\ i >= Len(lines)) =>
        IF stack = <<>> THEN IsOk(output)
        ELSE /\ IsUnclosed(output)
             /\ <<output[1].char, output[1].line, output[1].col>> = stack[1]
             /\ output[2].total = Len(stack)
             /\ LET few == output[3].frames
                IN  /\ Len(few) = Min(5, Len(stack))
                    /\ \A k \in 1..Len(few) :
                          few[k] = stack[Len(stack) - Len(few) + k]

C4_Witness ==
    /\ Done /\ IsUnclosed(output)
    /\ Len(stack) > 5
    /\ Len(output[3].frames) = 5
    /\ output[1].line < output[3].frames[5][2]

-----------------------------------------------------------------------------
(* C5: a reported UnexpectedCloser or MismatchedCloser is at the earliest  *)
(* position where a Normal-mode closer fails to match the stack: every     *)
(* such closer ends the scan at its own position, no shorter prefix of the *)
(* text yields either diagnostic, and the result is the same for every     *)
(* text that agrees with this one up to the reported position;             *)
(* UnclosedOpener is reported only when no prefix yields either.           *)

Prefix(text, k) == SubSeq(text, 1, k)
Tails == Texts(TailAlphabet, MaxTail)
ReportedAt == FlatPos(lines, output[1].line, output[1].col)

C5_HaltsAtEarliest ==
    FailingCloser =>
        /\ Done' /\ IsHalt(output')
        /\ output'[1].line = i + 1 /\ output'[1].col = j + 1

C5_PrefixDecides ==
    /\ (Done /\ IsHalt(output)) =>
          /\ \A m \in 0..(ReportedAt - 1) : ~IsHalt(Run(Prefix(content, m)))
          /\ \A t \in Tails : Run(Prefix(content, ReportedAt) \o t) = output
    /\ (Done /\ IsUnclosed(output)) =>
          \A m \in 0..Len(content) : ~IsHalt(Run(Prefix(content, m)))

C5_FirstErrorWins == [][C5_HaltsAtEarliest]_vars /\ []C5_PrefixDecides

C5_Witness ==
    /\ Done /\ IsMismatched(output)
    /\ ReportedAt > 2
    /\ ReportedAt < Len(content)
    /\ content[Len(content)] \in Closers
    /\ \E k \in 1..Len(content) : content[k] \in {"/", "\""}

-----------------------------------------------------------------------------
(* C6: a quote character q scanned in Normal mode starts a string of q;    *)
(* while in that string no scanned character changes the stack or starts a *)
(* comment or another string, and the string ends exactly at a scanned     *)
(* (unescaped) q.                                                          *)

C6_Step ==
    /\ (AtChar /\ Normal /\ CurChar \in Quotes) =>
          /\ in_string' /\ string_char' = CurChar
          /\ stack' = stack /\ j' = j + 1
    /\ (AtChar /\ in_string) =>
          /\ string_char \in Quotes
          /\ stack' = stack
          /\ string_char' = string_char
          /\ ~in_comment' /\ ~in_multiline_comment'
          /\ pc' = "scan" /\ output' = output
          /\ in_string' <=> CurChar # string_char

C6_StringProtects == [][C6_Step]_vars

C6_Witness ==
    /\ pc = "scan" /\ Normal /\ stack = <<>>
    /\ i = 0 /\ j = 4 /\ Len(lines[1]) = 4
    /\ lines[1][1] \in Quotes
    /\ lines[1][2] \in Quotes \ {lines[1][1]}
    /\ lines[1][3] \in Closers
    /\ lines[1][4] = lines[1][1]

-----------------------------------------------------------------------------
(* C7: after "//" in Normal mode every remaining character of the line is  *)
(* scanned in the line comment and leaves the stack alone, and every line  *)
(* starts outside a line comment.                                          *)

C7_Step ==
    /\ (AtChar /\ Normal /\ CurChar = "/" /\ j + 1 < Len(CurLine)
          /\ CurLine[j + 2] = "/") =>
          /\ in_comment' /\ ~in_string' /\ ~in_multiline_comment'
          /\ stack' = stack /\ j' = j + 1
    /\ (AtChar /\ in_comment) =>
          /\ stack' = stack
          /\ ~in_string' /\ ~in_multiline_comment'
          /\ pc' = "scan" /\ output' = output
          /\ i' = i /\ j' = j + 1
          /\ (j' < Len(CurLine)) => in_comment'
    /\ (InLine /\ ~AtChar) =>
          /\ ~in_comment
          /\ in_string' = in_string
          /\ in_multiline_comment' = in_multiline_comment
    /\ (j' = 0) => ~in_comment'

C7_LineComment == [][C7_Step]_vars

C7_Witness ==
    /\ Done /\ IsUnexpected(output)
    /\ Len(lines) = 3
    /\ lines[1] = <<"/", "/">>
    /\ lines[2] = <<>>
    /\ output[1].line = 3 /\ output[1].col = 1

-----------------------------------------------------------------------------
(* C8: in a block comment no scanned character changes the stack, the      *)
(* comment lasts over line ends, and it ends exactly at a "*" directly     *)
(* followed by "/" on the same line, whatever "/*" came before.            *)

C8_Step ==
    /\ (AtChar /\ in_multiline_comment) =>
          /\ stack' = stack
          /\ ~in_string' /\ ~in_comment'
          /\ pc' = "scan" /\ output' = output
          /\ in_multiline_comment' <=>
                ~(CurChar = "*" /\ j + 1 < Len(CurLine) /\ CurLine[j + 2] = "/")
          /\ j' = IF in_multiline_comment' THEN j + 1 ELSE j + 2
    /\ (InLine /\ ~AtChar) =>
          /\ in_multiline_comment' = in_multiline_comment
          /\ stack' = stack

C8_BlockComment == [][C8_Step]_vars

C8_Witness ==
    /\ Done /\ IsOk(output) /\ Normal
    /\ lines = << <<"/", "*">>, <<"/", "*", "*", "/">> >>

-----------------------------------------------------------------------------
(* C9: in a string a backslash skips the character after it: the scan goes *)
(* on two columns further, still in the same string, the stack untouched.  *)

C9_Step ==
    (AtChar /\ in_string /\ CurChar = "\\") =>
        /\ i' = i /\ j' = j + 2
        /\ in_string' /\ string_char' = string_char
        /\ ~in_comment' /\ ~in_multiline_comment'
        /\ stack' = stack
        /\ pc' = "scan" /\ output' = output

C9_EscapeSkips == [][C9_Step]_vars

C9_Witness ==
    /\ Done /\ IsOk(output) /\ Normal
    /\ Len(lines) = 1 /\ Len(lines[1]) = 5
    /\ lines[1][1] \in Quotes
    /\ lines[1][2] = "\\"
    /\ lines[1][3] = lines[1][1]
    /\ lines[1][4] \in Closers
    /\ lines[1][5] = lines[1][1]

-----------------------------------------------------------------------------
(* C10: every scan ends; each round of the loop moves the column on or     *)
(* returns, the lines are visited once in order, and the scan prints       *)
(* exactly one outcome, after which nothing more happens.                  *)

Outcomes(out) ==
    {P \in {"ok", "unexpected", "mismatched", "unclosed"} :
        \/ P = "ok" /\ IsOk(out)
        \/ P = "unexpected" /\ IsUnexpected(out)
        \/ P = "mismatched" /\ IsMismatched(out)
        \/ P = "unclosed" /\ IsUnclosed(out)}

C10_Step ==
    /\ ~Done
    /\ output = <<>>
    /\ AtChar => (Done' \/ j' > j) /\ i' = i
    /\ i' # i => (i' = i + 1 /\ j' = 0 /\ ~AtChar)
    /\ Done' => Cardinality(Outcomes(output')) = 1
    /\ ~Done' => output' = <<>>

C10_TerminatesWithOneOutcome == <>Done /\ [][C10_Step]_vars

C10_Witness ==
    /\ Done /\ IsMismatched(output)
    /\ i = 1 /\ j = 1
    /\ in_multiline_comment = FALSE
    /\ \E k \in 1..Len(content) : content[k] = "*"

-----------------------------------------------------------------------------
(* C11: a call carries nothing over from the call before it: in every      *)
(* call, whatever was scanned before, the locals are at each step those of *)
(* a scan of the same text begun afresh, and the output is that scan's.    *)

(* s is a state of the scan of ls that starts in state from *)
RECURSIVE OnRun(_, _, _)
OnRun(ls, from, s) ==
    \/ s = from
    \/ from.pc # "done" /\ OnRun(ls, StepOf(ls, from), s)

C11_FreshEveryCall ==
    /\ lines = SplitLines(content)
    /\ OnRun(lines, Start, Locals)
    /\ Done => output = Run(content)

(* A second call has returned *)
C11_Witness ==
    /\ calls = 2
    /\ Done /\ IsUnexpected(output)
    /\ content = <<"*", ")">>


-----------------------------------------------------------------------------
(* C12: "/*" scanned in Normal mode is consumed whole, so its "*" cannot   *)
(* serve in a closing "*/": once the three characters "/*/" have been      *)
(* scanned from Normal mode the scan is still in the block comment, at the *)
(* character after them, with the stack as it was.                         *)

C12_OpenerStarNotReused ==
    (AtChar /\ Normal /\ CurChar = "/" /\ j + 2 < Len(CurLine)
       /\ CurLine[j + 2] = "*" /\ CurLine[j + 3] = "/") =>
        LET after == StepOf(lines, StepOf(lines, Locals))
        IN  /\ after.in_multiline_comment
            /\ after.j = j + 3
            /\ after.stack = stack


-----------------------------------------------------------------------------
(* C13: at most one of in_string, in_comment, in_multiline_comment is set  *)
(* in every state, string_char is a quote character whenever in_string is  *)
(* set, and the mode after a round of the loop is a function of the mode   *)
(* before it, the character scanned and the character after it on the      *)
(* line, if any.                                                           *)

ModeOf(c, m, st, q) ==
    IF c THEN <<"InLineComment", "">>
    ELSE IF m THEN <<"InBlockComment", "">>
    ELSE IF st THEN <<"InString", q>>
    ELSE <<"Normal", "">>

Mode == ModeOf(in_comment, in_multiline_comment, in_string, string_char)

(* The character after the scanned one on its line, "" when there is none *)
NextChar == IF j + 1 < Len(CurLine) THEN CurLine[j + 2] ELSE ""

NextMode(m, c, n) ==
    CASE m[1] = "InLineComment" -> IF n = "" THEN <<"Normal", "">> ELSE m
      [] m[1] = "InBlockComment" ->
            IF c = "*" /\ n = "/" THEN <<"Normal", "">> ELSE m
      [] m[1] = "InString" -> IF c = m[2] THEN <<"Normal", "">> ELSE m
      [] m[1] = "Normal" ->
            IF c \in Quotes THEN <<"InString", c>>
            ELSE IF c = "/" /\ n = "/" THEN <<"InLineComment", "">>
            ELSE IF c = "/" /\ n = "*" THEN <<"InBlockComment", "">>
            ELSE m

OneMode ==
    /\ Cardinality({f \in {"s", "c", "m"} :
                      \/ f = "s" /\ in_string
                      \/ f = "c" /\ in_comment
                      \/ f = "m" /\ in_multiline_comment}) <= 1
    /\ in_string => string_char \in Quotes

C13_ModeStep ==
    /\ AtChar => Mode' = NextMode(Mode, CurChar, NextChar)
    /\ ~AtChar => Mode' = Mode

C13_OneModeAtATime == []OneMode /\ [][C13_ModeStep]_vars

C13_Witness ==
    /\ pc = "scan" /\ i = 1 /\ j = 1
    /\ in_string /\ string_char = Backquote
    /\ lines[1] = <<"/">>


-----------------------------------------------------------------------------
(* C14: until the scan halts on a closer, every frame of the stack is an   *)
(* opener of the text at the frame's 1-based line and column that was      *)
(* scanned in Normal mode, the frames' positions increase strictly from    *)
(* bottom to top, and the stack is as long as the number of openers        *)
(* scanned in Normal mode less the number of closers scanned in Normal     *)
(* mode.                                                                   *)

(* The states the scan of ls went through from state from before state s *)
RECURSIVE Past(_, _, _)
Past(ls, from, s) ==
    IF from = s \/ from.pc = "done" THEN <<>>
    ELSE <<from>> \o Past(ls, StepOf(ls, from), s)

(* In state h the scan of ls is in Normal mode at a character of C *)
ScansInNormal(ls, h, C) ==
    /\ h.i < Len(ls)
    /\ h.j < Len(ls[h.i + 1])
    /\ ~h.in_string /\ ~h.in_comment /\ ~h.in_multiline_comment
    /\ ls[h.i + 1][h.j + 1] \in C

Before(f, g) == f[2] < g[2] \/ (f[2] = g[2] /\ f[3] < g[3])

C14_StackIsOpenFrames ==
    ~(Done /\ IsHalt(output)) =>
        LET H == Past(lines, Start, Locals)
            opens == {k \in 1..Len(H) : ScansInNormal(lines, H[k], Openers)}
            closes == {k \in 1..Len(H) : ScansInNormal(lines, H[k], Closers)}
        IN  /\ \A n \in 1..Len(stack) :
                  /\ stack[n][1] \in Openers
                  /\ stack[n][2] \in 1..Len(lines)
                  /\ stack[n][3] \in 1..Len(lines[stack[n][2]])
                  /\ lines[stack[n][2]][stack[n][3]] = stack[n][1]
                  /\ \E k \in opens : /\ H[k].i + 1 = stack[n][2]
                                      /\ H[k].j + 1 = stack[n][3]
            /\ \A n \in 1..(Len(stack) - 1) : Before(stack[n], stack[n + 1])
            /\ Len(stack) = Cardinality(opens) - Cardinality(closes)

C14_Witness ==
    /\ pc = "scan"
    /\ Len(stack) = 2
    /\ stack[1][2] = 1 /\ stack[2][2] = 2 /\ stack[2][3] = 3
    /\ Cardinality({k \in 1..Len(content) : content[k] \in Closers}) >= 2


-----------------------------------------------------------------------------
(* C15: a round of the loop changes the stack in one of two ways only: an  *)
(* opener scanned in Normal mode appends the frame of that opener, a       *)
(* closer scanned in Normal mode removes the top frame (on an empty stack  *)
(* there is none to remove); all frames below stay, every other step       *)
(* leaves the stack as it is, and an opener or a matched closer leaves the *)
(* mode as it is.                                                          *)

AtNormalOpener == AtChar /\ Normal /\ CurChar \in Openers

C15_Step ==
    /\ AtNormalOpener =>
          /\ stack' = stack \o << <<CurChar, i + 1, j + 1>> >>
          /\ Mode' = Mode
    /\ (AtNormalCloser /\ stack # <<>>) =>
          /\ Len(stack') = Len(stack) - 1
          /\ \A n \in 1..Len(stack') : stack'[n] = stack[n]
          /\ (CurChar = CloserOf(Top[1])) => Mode' = Mode
    /\ (AtNormalCloser /\ stack = <<>>) => stack' = <<>>
    /\ ~(AtNormalOpener \/ AtNormalCloser) => stack' = stack

C15_StackFrameEffect == [][C15_Step]_vars

C15_Witness ==
    /\ pc = "scan" /\ Normal
    /\ i = 0 /\ j = 4
    /\ Len(stack) = 2
    /\ lines[1][3] \in Openers
    /\ lines[1][4] \in Closers


-----------------------------------------------------------------------------
(* C16: a "/" scanned in Normal mode as the last character of a line       *)
(* starts no comment: the next line begins in Normal mode with the stack   *)
(* as it was, whatever its first character is.                             *)

C16_TrailingSlashIsPlain ==
    (pc = "scan" /\ i >= 1 /\ j = 0) =>
        LET H == Past(lines, Start, Locals)
        IN  (/\ Len(H) >= 2
             /\ H[Len(H) - 1].i = i - 1
             /\ H[Len(H) - 1].j = Len(lines[i]) - 1
             /\ ScansInNormal(lines, H[Len(H) - 1], {"/"})) =>
                /\ Normal
                /\ stack = H[Len(H) - 1].stack

C16_Witness ==
    /\ Done /\ IsUnexpected(output)
    /\ lines = << <<"/">>, <<"*", "}">> >>
    /\ output[1].line = 2 /\ output[1].col = 2


-----------------------------------------------------------------------------
(* C17: the end of a line does not end a string.  Leaving a line inside a  *)
(* string keeps the string mode and its quote; on the following lines      *)
(* every character other than that quote leaves the stack, the comment     *)
(* flags and the output alone, and the scan stays inside the string.       *)

C17_Step ==
    /\ (InLine /\ ~AtChar /\ in_string) =>
          /\ in_string' /\ string_char' = string_char
          /\ ~in_comment' /\ ~in_multiline_comment'
          /\ stack' = stack /\ output' = output
          /\ i' = i + 1 /\ j' = 0 /\ pc' = "scan"
    /\ (AtChar /\ in_string /\ i >= 1 /\ CurChar # string_char) =>
          /\ in_string' /\ string_char' = string_char
          /\ ~in_comment' /\ ~in_multiline_comment'
          /\ stack' = stack /\ output' = output

C17_StringOutlivesLine == [][C17_Step]_vars

C17_Witness ==
    /\ Done /\ IsOk(output) /\ in_string = FALSE
    /\ lines = << <<"\"">>, <<"}", "\"">> >>


-----------------------------------------------------------------------------
(* C18: the skip after a backslash stays on its line.  When the last       *)
(* character of a line is a backslash scanned inside a string, the column  *)
(* runs one past the end of that line, the next line is entered at its     *)
(* first character still inside the same string, and the string's quote    *)
(* as that first character ends the string.                                *)

C18_EntersAtFirstChar ==
    (pc = "scan" /\ i >= 1) =>
        LET H == Past(lines, Start, Locals)
        IN  (/\ Len(H) >= 2
             /\ H[Len(H)].i = i - 1
             /\ H[Len(H) - 1].i = i - 1
             /\ H[Len(H) - 1].in_string
             /\ H[Len(H) - 1].j = Len(lines[i]) - 1
             /\ lines[i][Len(lines[i])] = "\\") =>
                /\ H[Len(H)].j = Len(lines[i]) + 1
                /\ j = 0
                /\ in_string /\ string_char = H[Len(H) - 1].string_char
                /\ stack = H[Len(H) - 1].stack

C18_Step ==
    (/\ AtChar /\ in_string /\ i >= 1 /\ j = 0
     /\ Len(lines[i]) > 0 /\ lines[i][Len(lines[i])] = "\\"
     /\ CurChar = string_char) =>
        /\ Normal' /\ j' = 1 /\ i' = i
        /\ stack' = stack /\ output' = output

C18_EscapeStaysOnLine == []C18_EntersAtFirstChar /\ [][C18_Step]_vars

C18_Witness ==
    /\ Done /\ IsUnexpected(output)
    /\ lines = << <<"\"", "\\">>, <<"\"", "}">> >>
    /\ output[1].line = 2 /\ output[1].col = 2


-----------------------------------------------------------------------------
(* C19: a text that ends inside a string or a block comment is reported    *)
(* on from its stack alone: "No unbalanced brackets found." exactly when   *)
(* the stack is empty, otherwise the three lines about the unclosed        *)
(* frames, and no line about the string or the comment left open.          *)

C19_FinalModeIgnored ==
    (Done /\ i >= Len(lines) /\ (in_string \/ in_multiline_comment)) =>
        /\ (stack = <<>>) <=> IsOk(output)
        /\ (stack # <<>>) <=> IsUnclosed(output)
        /\ IsUnclosed(output) =>
              /\ <<output[1].char, output[1].line, output[1].col>> = stack[1]
              /\ output[2].total = Len(stack)
              /\ output[3].frames =
                    SubSeq(stack, Len(stack) - Min(5, Len(stack)) + 1, Len(stack))

C19_Witness ==
    /\ Done /\ i >= Len(lines) /\ in_string
    /\ IsUnclosed(output) /\ Len(stack) >= 2


=============================================================================
